---- MODULE Spec2Model ----
(***************************************************************************)
(* Model of the NOSTR Wallet send path: the Taproot transaction builder    *)
(* createBitcoinTransaction (lib/bitcoin.ts) as a step machine, and the    *)
(* send dialog (SendBitcoinDialog.tsx) that drives it.                     *)
(*                                                                         *)
(* Amounts are integer satoshis. Virtual sizes carry a half vbyte in the   *)
(* source (57.5, 10.5), so sizes are kept doubled and halved at the        *)
(* rounding step.                                                          *)
(***************************************************************************)
EXTENDS Integers, Sequences, FiniteSets, TLC

\* ------------------------------------------------------------------ bounds

\* Longest output set handed to the builder when it is called on its own.
MaxUtxos == 2

\* Most outputs the signer's address holds while the page is used.
MaxHeld == 1

\* Most decimal places of an amount typed on its own.
MaxDecimals == 9

\* How many further calls of the builder follow the first one.
MaxCalls == 2

\* ------------------------------------------------------- program constants

\* const dustLimit = 546
DustLimit == 546

\* ------------------------------------------------------------ value domains

BitcoinNetwork == {"mainnet", "testnet", "testnet4"}

\* The outputs the signer's address has received, oldest first: one
\* confirmed output of 100,000, then an unconfirmed one, then an unconfirmed
\* dust-sized one.
UtxoHistory ==
  << [txid |-> "t1", vout |-> 0, value |-> 100000, confirmed |-> TRUE],
     [txid |-> "t2", vout |-> 0, value |-> 50000,  confirmed |-> FALSE],
     [txid |-> "t2", vout |-> 1, value |-> 546,    confirmed |-> FALSE] >>

UtxoPool == { UtxoHistory[i] : i \in DOMAIN UtxoHistory }

\* The first k outputs of the history.
UtxoPrefixes == { SubSeq(UtxoHistory, 1, k) : k \in 0..Len(UtxoHistory) }

\* Arrays of outputs a caller can pass, repeated elements included.
UtxoLists == UNION { [1..n -> UtxoPool] : n \in 0..MaxUtxos }

\* Amounts around the boundaries of one 100,000 input at 10 sat/vB
\* (fee 1540): change 48460, 547, 546, 0, -1, and the whole balance.
AmountChoices == {-1000, 0, 50000, 97913, 97914, 98460, 98461, 100000}

\* Fee rates in sat/vB; 1 makes the half vbyte round up.
FeeRateChoices == {0, 1, 10}

\* Private keys: one valid 32-byte scalar, one that ECPair rejects, and one
\* for whose public key the address derivation yields nothing.
PrivateKeys == {"k1", "bad", "kx"}

\* ------------------------------------------------------------ pure helpers

\* The x-only public key of a private key (keyPair.publicKey.slice(1, 33)).
XOnlyPubkey(privateKeyHex) ==
  CASE privateKeyHex = "k1" -> "P1"
    [] privateKeyHex = "kx" -> "off"
    [] OTHER -> ""

\* getNetwork: testnet and testnet4 share the testnet parameters.
getNetwork(network) ==
  IF network = "testnet" \/ network = "testnet4" THEN "testnet" ELSE "bitcoin"

\* Faulty variant of getApiUrl: testnet4 is sent to the testnet explorer.
getApiUrlTestnetOnly(net) ==
  IF net = "testnet4" \/ net = "testnet"
    THEN "https://mempool.space/testnet/api"
    ELSE "https://mempool.space/api"

\* getApiUrl: the explorer base URL of a network.
getApiUrl(net) ==
  IF net = "testnet4" THEN "https://mempool.space/testnet4/api"
  ELSE IF net = "testnet" THEN "https://mempool.space/testnet/api"
  ELSE "https://mempool.space/api"

\* The bech32 human-readable part with the witness-version-1 marker.
AddressPrefix(btcNetwork) == IF btcNetwork = "testnet" THEN "tb1p" ELSE "bc1p"

\* p2tr accepts an internal key: 32 bytes that are the x coordinate of a
\* curve point. "" stands for bytes of another length, "off" for 32 bytes
\* off the curve.
ValidXOnly(pubkey) == pubkey \notin {"", "off"}

\* Faulty variant of P2trAddress: main-chain parameters whatever the
\* selected network.
P2trAddressMainOnly(pubkey, btcNetwork) ==
  IF ~ValidXOnly(pubkey) THEN <<>> ELSE <<"bc1p", pubkey>>

\* bitcoin.payments.p2tr({internalPubkey, network}).address: an address is
\* the pair of its prefix and the key it commits to; <<>> is no address.
P2trAddress(pubkey, btcNetwork) ==
  IF ~ValidXOnly(pubkey) THEN <<>>
  ELSE <<AddressPrefix(btcNetwork), pubkey>>

\* Destinations a caller can supply: another key's address on either chain,
\* and a string that is no address.
ToAddressChoices == { <<"bc1p", "P2">>, <<"tb1p", "P2">>, <<"bc1p">> }

\* Faulty variant of ValidAddressFor: the empty string is taken for an
\* address.
EmptyOrValidAddressFor(address, btcNetwork) ==
  address = <<>> \/ (Len(address) = 2 /\ address[1] = AddressPrefix(btcNetwork))

\* address.toOutputScript(address, network) succeeds: well formed and of the
\* draft's chain.
ValidAddressFor(address, btcNetwork) ==
  Len(address) = 2 /\ address[1] = AddressPrefix(btcNetwork)

\* Faulty variant of InputsToSpend: unconfirmed outputs are left out.
ConfirmedOnly(utxos) == SelectSeq(utxos, LAMBDA u : u.confirmed)

\* for (const utxo of utxos): every supplied output is spent, none filtered.
InputsToSpend(utxos) == utxos

\* Faulty variant of EstimatedSizeX2: the size of a one-output transaction.
OneOutputSizeX2(n) == n * 115 + 1 * 86 + 21

\* Faulty variant of EstimatedSizeX2: 153.5 vbytes for one input, half a
\* vbyte short.
HalfVbyteShortSizeX2(n) == n * 115 + 2 * 86 + 20

\* utxos.length * 57.5 + 2 * 43 + 10.5, doubled.
EstimatedSizeX2(n) == n * 115 + 2 * 86 + 21

\* Math.ceil(x / 2) for an integer x.
CeilHalf(x) == (x + 1) \div 2

\* Faulty variant of EstimatedFee: no fee is set aside.
FeeWaived(n, rate) == 0

\* Math.ceil(estimatedSize * feeRate)
EstimatedFee(n, rate) == CeilHalf(EstimatedSizeX2(n) * rate)

\* Faulty variant of InsufficientFunds: the funds check is missing.
FundsUnchecked(chg) == FALSE

\* Faulty variant of InsufficientFunds: a shortfall of one satoshi passes.
ShortByMoreThanOne(chg) == chg < -1

\* if (change < 0) throw
InsufficientFunds(chg) == chg < 0

\* Faulty variant of ChangeIsSignificant: change up to twice the dust limit
\* is left to the miners.
AboveTwiceDustLimit(chg) == chg > 2 * DustLimit

\* Faulty variant of ChangeIsSignificant: change at the dust limit is paid
\* out.
AtLeastDustLimit(chg) == chg >= DustLimit

\* if (change > dustLimit) add the change output
ChangeIsSignificant(chg) == chg > DustLimit

\* psbt.addInput refuses an outpoint the draft already spends
\* ("Duplicate input detected.").
DuplicateInput(inputs, utxo) ==
  \E i \in DOMAIN inputs :
    inputs[i].hash = utxo.txid /\ inputs[i].index = utxo.vout

\* Faulty variant of NoInputZero: a draft without inputs is finalized.
InputZeroAssumed(inputs) == FALSE

\* psbt.finalizeAllInputs() starts with checkForInput(inputs, 0), which
\* throws "No input #0" on a draft without inputs.
NoInputZero(inputs) == inputs = <<>>

RECURSIVE SumValues(_)
SumValues(s) == IF s = <<>> THEN 0 ELSE s[1].value + SumValues(Tail(s))

\* --------------------------------------------------------------- the state

VARIABLES
  \* createBitcoinTransaction
  bpc,           \* position inside createBitcoinTransaction
  call,          \* its arguments
  internalPubkey,
  changeAddress,
  psbt,          \* the draft: inputs and outputs
  totalInput,
  estimatedFee,
  change,
  tweakCount,    \* how often keyPair.tweak ran
  result,        \* what the call returned or threw
  \* the application around the dialog
  network,       \* config.bitcoinNetwork
  loginType,     \* logins[0]?.type
  nsecStored,    \* what logins[0].data.nsec decodes to
  userPubkey,    \* logins[0].pubkey
  utxosQuery,    \* the query ['utxos', senderAddress, network]
  feeQuery,      \* the query ['fee-rates', network]
  ECPair,        \* lib/bitcoin.ts: 0 for null, else the factory made by the
                 \* ECPair-th run of initEccLib and ECPairFactory
  \* SendBitcoinDialog
  isOpen,
  recipient,
  amount,
  feeSpeed,
  error,
  txId,
  mstatus,       \* sendMutation.status
  mpc,           \* position inside the send mutation
  outcome,       \* what mutationFn resolved or rejected with
  attempt        \* history of the current send attempt

buildVars == <<bpc, call, internalPubkey, changeAddress, psbt, totalInput,
               estimatedFee, change, tweakCount, result>>

appVars == <<network, loginType, nsecStored, userPubkey, utxosQuery, feeQuery,
             ECPair>>

formVars == <<isOpen, recipient, amount, feeSpeed, error, txId>>

sendVars == <<mstatus, mpc, outcome, attempt>>

vars == <<buildVars, appVars, formVars, sendVars>>

NoResult == [kind |-> "none", message |-> "", required |-> 0, available |-> 0,
             txHex |-> [ins |-> <<>>, outs |-> <<>>], fee |-> 0]

Thrown(msg, req, avail) ==
  [NoResult EXCEPT !.kind = "error", !.message = msg,
                   !.required = req, !.available = avail]

EmptyPsbt == [inputs |-> <<>>, outputs |-> <<>>]

\* The locals of a call that has not run yet.
BuildLocalsInit ==
  /\ internalPubkey = ""
  /\ changeAddress = <<>>
  /\ psbt = EmptyPsbt
  /\ totalInput = 0
  /\ estimatedFee = 0
  /\ change = 0
  /\ tweakCount = 0
  /\ result = NoResult

\* ---------------------------------------------- createBitcoinTransaction

\* Faulty variant of EccReady: the factory in hand is never recognised.
EccNeverReady(pair) == FALSE

\* The condition (!ECPair) is false.
EccReady(pair) == pair # 0

\* getECPair(): the factory it leaves in ECPair and returns.
getECPair(pair) == IF EccReady(pair) THEN pair ELSE pair + 1

\* ECPair.fromPrivateKey(Buffer.from(privateKeyHex, 'hex')) and the x-only key.
BuildKeyPair ==
  /\ bpc = "keyPair"
  /\ ECPair' = getECPair(ECPair)
  /\ IF XOnlyPubkey(call.privateKeyHex) = ""
       THEN /\ result' = Thrown("Invalid private key", 0, 0)
            /\ bpc' = "done"
            /\ UNCHANGED internalPubkey
       ELSE /\ internalPubkey' = XOnlyPubkey(call.privateKeyHex)
            /\ bpc' = "changeAddress"
            /\ UNCHANGED result
  /\ UNCHANGED <<network, loginType, nsecStored, userPubkey, utxosQuery,
                 feeQuery, formVars, sendVars>>
  /\ UNCHANGED <<call, changeAddress, psbt, totalInput, estimatedFee, change,
                 tweakCount>>

\* Faulty variant of NoAddress: a missing change address goes unnoticed.
NoAddressIgnored(addr) == FALSE

\* if (!changeAddress)
NoAddress(addr) == addr = <<>>

\* The signer's own address, and the empty draft.
BuildChangeAddress ==
  /\ bpc = "changeAddress"
  /\ LET addr == P2trAddress(internalPubkey, getNetwork(call.network)) IN
       IF NoAddress(addr)
         THEN /\ result' = Thrown("Failed to generate change address", 0, 0)
              /\ bpc' = "done"
              /\ UNCHANGED <<changeAddress, psbt>>
         ELSE /\ changeAddress' = addr
              /\ psbt' = EmptyPsbt
              /\ bpc' = "addInput"
              /\ UNCHANGED result
  /\ UNCHANGED <<appVars, formVars, sendVars>>
  /\ UNCHANGED <<call, internalPubkey, totalInput, estimatedFee, change,
                 tweakCount>>

\* One turn of the input loop: the next output becomes an input whose
\* script is rebuilt from the signer's own key; the library throws on an
\* outpoint it has already been given.
BuildAddInput ==
  /\ bpc = "addInput"
  /\ Len(psbt.inputs) < Len(InputsToSpend(call.utxos))
  /\ LET utxo == InputsToSpend(call.utxos)[Len(psbt.inputs) + 1] IN
       IF DuplicateInput(psbt.inputs, utxo)
         THEN /\ result' = Thrown("Duplicate input detected.", 0, 0)
              /\ bpc' = "done"
              /\ UNCHANGED <<psbt, totalInput>>
         ELSE /\ psbt' = [psbt EXCEPT !.inputs = Append(@,
                            [hash |-> utxo.txid, index |-> utxo.vout,
                             value |-> utxo.value,
                             script |-> P2trAddress(internalPubkey,
                                                    getNetwork(call.network)),
                             tapInternalKey |-> internalPubkey,
                             sigs |-> <<>>, finalized |-> FALSE])]
              /\ totalInput' = totalInput + utxo.value
              /\ UNCHANGED <<bpc, result>>
  /\ UNCHANGED <<appVars, formVars, sendVars>>
  /\ UNCHANGED <<call, internalPubkey, changeAddress, estimatedFee,
                 change, tweakCount>>

\* Size and fee estimate, change, and the funds check.
BuildEstimate ==
  /\ bpc = "addInput"
  /\ Len(psbt.inputs) = Len(InputsToSpend(call.utxos))
  /\ LET fee == EstimatedFee(Len(call.utxos), call.feeRate)
         chg == totalInput - call.amountSats - fee IN
       /\ estimatedFee' = fee
       /\ change' = chg
       /\ IF InsufficientFunds(chg)
            THEN /\ result' = Thrown("Insufficient funds",
                                     call.amountSats + fee, totalInput)
                 /\ bpc' = "done"
            ELSE /\ bpc' = "addOutput"
                 /\ UNCHANGED result
  /\ UNCHANGED <<appVars, formVars, sendVars>>
  /\ UNCHANGED <<call, internalPubkey, changeAddress, psbt, totalInput,
                 tweakCount>>

\* psbt.addOutput({address: toAddress, value: BigInt(amountSats)}): the
\* library rejects an address that is not of the draft's chain and a
\* negative value.
BuildAddRecipientOutput ==
  /\ bpc = "addOutput"
  /\ IF ~ValidAddressFor(call.toAddress, getNetwork(call.network))
        \/ call.amountSats < 0
       THEN /\ result' = Thrown("Invalid output", 0, 0)
            /\ bpc' = "done"
            /\ UNCHANGED psbt
       ELSE /\ psbt' = [psbt EXCEPT !.outputs = Append(@,
                          [address |-> call.toAddress,
                           value |-> call.amountSats])]
            /\ bpc' = "addChange"
            /\ UNCHANGED result
  /\ UNCHANGED <<appVars, formVars, sendVars>>
  /\ UNCHANGED <<call, internalPubkey, changeAddress, totalInput,
                 estimatedFee, change, tweakCount>>

\* The change output, only above the dust limit.
BuildAddChangeOutput ==
  /\ bpc = "addChange"
  /\ psbt' = IF ChangeIsSignificant(change)
               THEN [psbt EXCEPT !.outputs = Append(@,
                       [address |-> changeAddress, value |-> change])]
               ELSE psbt
  /\ bpc' = "tweak"
  /\ UNCHANGED <<appVars, formVars, sendVars>>
  /\ UNCHANGED <<call, internalPubkey, changeAddress, totalInput,
                 estimatedFee, change, tweakCount, result>>

\* keyPair.tweak(taggedHash('TapTweak', internalPubkey))
BuildTweak ==
  /\ bpc = "tweak"
  /\ tweakCount' = tweakCount + 1
  /\ bpc' = "sign"
  /\ UNCHANGED <<appVars, formVars, sendVars>>
  /\ UNCHANGED <<call, internalPubkey, changeAddress, psbt, totalInput,
                 estimatedFee, change, result>>

\* The first input that carries no signature yet (0 when all are signed).
NextUnsigned ==
  IF \E i \in DOMAIN psbt.inputs : psbt.inputs[i].sigs = <<>>
    THEN CHOOSE i \in DOMAIN psbt.inputs :
           /\ psbt.inputs[i].sigs = <<>>
           /\ \A j \in 1..(i - 1) : psbt.inputs[j].sigs # <<>>
    ELSE 0

\* One turn of the signing loop: psbt.signInput(i, tweakedSigner).
BuildSignInput ==
  /\ bpc = "sign"
  /\ NextUnsigned # 0
  /\ psbt' = [psbt EXCEPT !.inputs[NextUnsigned].sigs =
                Append(@, <<"tweaked", internalPubkey, tweakCount>>)]
  /\ UNCHANGED <<appVars, formVars, sendVars>>
  /\ UNCHANGED <<bpc, call, internalPubkey, changeAddress, totalInput,
                 estimatedFee, change, tweakCount, result>>

\* Faulty variant of AllSigned: finalization does not wait for the signing
\* loop.
SigningSkipped == TRUE

\* The signing loop has run over every index.
AllSigned == NextUnsigned = 0

\* psbt.finalizeAllInputs(): the library demands an input #0.
BuildFinalize ==
  /\ bpc = "sign"
  /\ AllSigned
  /\ IF NoInputZero(psbt.inputs)
       THEN /\ result' = Thrown("No input #0", 0, 0)
            /\ bpc' = "done"
            /\ UNCHANGED psbt
       ELSE /\ psbt' = [psbt EXCEPT !.inputs =
                          [i \in DOMAIN psbt.inputs |->
                             [psbt.inputs[i] EXCEPT !.finalized = TRUE]]]
            /\ bpc' = "extract"
            /\ UNCHANGED result
  /\ UNCHANGED <<appVars, formVars, sendVars>>
  /\ UNCHANGED <<call, internalPubkey, changeAddress, totalInput,
                 estimatedFee, change, tweakCount>>

\* psbt.extractTransaction() and the return value {txHex, fee}.
BuildExtract ==
  /\ bpc = "extract"
  /\ result' = [NoResult EXCEPT
                  !.kind = "ok",
                  !.txHex = [ins |-> [i \in DOMAIN psbt.inputs |->
                                        <<psbt.inputs[i].hash,
                                          psbt.inputs[i].index>>],
                             outs |-> psbt.outputs],
                  !.fee = estimatedFee]
  /\ bpc' = "done"
  /\ UNCHANGED <<appVars, formVars, sendVars>>
  /\ UNCHANGED <<call, internalPubkey, changeAddress, psbt, totalInput,
                 estimatedFee, change, tweakCount>>

NextBuild ==
  \/ BuildKeyPair
  \/ BuildChangeAddress
  \/ BuildAddInput
  \/ BuildEstimate
  \/ BuildAddRecipientOutput
  \/ BuildAddChangeOutput
  \/ BuildTweak
  \/ BuildSignInput
  \/ BuildFinalize
  \/ BuildExtract

\* ------------------------------------------------------ application helpers

NoCall == [privateKeyHex |-> "", toAddress |-> <<>>, amountSats |-> 0,
           utxos |-> <<>>, feeRate |-> 0, network |-> "mainnet"]

\* No builder call is running and none has run.
BuildIdle ==
  /\ bpc = "idle"
  /\ call = NoCall
  /\ BuildLocalsInit

LoginTypes == {"none", "extension", "nsec"}

\* What nip19.decode makes of the stored nsec: an nsec, another entity, or
\* nothing stored at all.
NsecStoredChoices == {"nsec", "npub", "missing"}

\* useCurrentUser: the one account of the session, with its public key.
user == loginType # "none"

\* What the session holds as the user's public key: a key on the curve, or
\* 32 bytes that are no x-only key.
UserPubkeys == {"P1", "off"}

UserPubkey == userPubkey

\* useNsecAccess
hasNsecAccess == loginType = "nsec"

\* Faulty variant of getPrivateKey: a key whatever the login holds.
getPrivateKeyUnchecked == "k1"

\* getPrivateKey(): the hex key, or "" for null.
getPrivateKey ==
  IF ~hasNsecAccess THEN ""
  ELSE IF nsecStored = "nsec" THEN "k1" ELSE ""

\* nostrPubkeyToBitcoinAddress: '' (here <<>>) when p2tr fails.
nostrPubkeyToBitcoinAddress(pubkeyHex, net) ==
  P2trAddress(pubkeyHex, getNetwork(net))

senderAddressOn(net) ==
  IF user THEN nostrPubkeyToBitcoinAddress(UserPubkey, net) ELSE <<>>

senderAddress == senderAddressOn(network)

\* A recipient text is <<>> when empty, else its leading characters followed
\* by the key it encodes, if any: an npub of a key, an npub of 32 bytes off
\* the curve, an npub that does not decode, an address, an invoice.
RecipientChoices ==
  { <<"npub1", "P2">>, <<"npub1", "off">>, <<"npub1">>, <<"bc1p", "P2">>,
    <<"lnbc">> }

\* npubToBitcoinAddress: a failure of nip19.decode is logged and thrown
\* again; a decoded key goes to nostrPubkeyToBitcoinAddress.
npubToBitcoinAddress(npub, net) ==
  IF Len(npub) = 2 /\ npub[1] = "npub1" /\ npub[2] # ""
    THEN [threw |-> FALSE,
          address |-> nostrPubkeyToBitcoinAddress(npub[2], net)]
    ELSE [threw |-> TRUE, address |-> <<>>]

\* Lines 100-112: the recipient address, or a thrown error.
ParseRecipient(text, net) ==
  IF text # <<>> /\ text[1] = "npub1"
    THEN IF ~npubToBitcoinAddress(text, net).threw
           THEN [ok |-> TRUE,
                 address |-> npubToBitcoinAddress(text, net).address]
           ELSE [ok |-> FALSE, address |-> <<>>]
  ELSE IF text # <<>> /\ text[1] \in {"bc1p", "tb1p"}
    THEN [ok |-> TRUE, address |-> text]
  ELSE [ok |-> FALSE, address |-> <<>>]

\* An amount text: empty, or the decimal m / 10^d.
AmountEmpty == [kind |-> "empty", m |-> 0, d |-> 0]

Decimal(m, d) == [kind |-> "num", m |-> m, d |-> d]

\* 0.0005 BTC, and a positive amount below one satoshi.
AmountTexts == { Decimal(50000, 8), Decimal(1, 9) }

RECURSIVE Pow10(_)
Pow10(k) == IF k = 0 THEN 1 ELSE 10 * Pow10(k - 1)

\* btcToSats(parseFloat(text)): Math.round(btc * 100000000)
btcToSats(a) ==
  IF a.d <= 8 THEN a.m * Pow10(8 - a.d)
  ELSE (2 * a.m + Pow10(a.d - 8)) \div (2 * Pow10(a.d - 8))

\* Faulty variant of satsToBTC: six decimal places.
satsToBTC6(sats) == Decimal(sats \div 100, 6)

\* satsToBTC: (sats / 100000000).toFixed(8)
satsToBTC(sats) == Decimal(sats, 8)

\* Amounts a user can type: short mantissas with 0 to MaxDecimals decimal
\* places (up to 21 BTC), longer ones with 4 decimal places or more.
ShortMantissas == {-3, 0, 1, 5, 21}

MantissaChoices == {-12345, 12345, 50000}

AmountInputs ==
  { Decimal(m, d) : m \in ShortMantissas, d \in 0..MaxDecimals }
    \cup { Decimal(m, d) : m \in MantissaChoices, d \in 4..MaxDecimals }

FeeSpeeds == {"fastest", "halfHour", "hour", "economy"}

NoSchedule == [fastestFee |-> 0, halfHourFee |-> 0, hourFee |-> 0,
               economyFee |-> 0, minimumFee |-> 0]

\* The five tiers of a fee schedule.
Tiers == {"fastestFee", "halfHourFee", "hourFee", "economyFee", "minimumFee"}

\* A member of a response body: <<>> when absent, else <<v>>.
TierValues == { <<>>, <<0>>, <<1>>, <<10>> }

\* Bodies of the fee endpoint, each tier present or absent.
FeeBodies == [Tiers -> TierValues]

\* The bodies the page receives: half-hour and fastest at 10 sat/vB, the
\* hour tier absent, economy at 1, minimum at 0.
FeeResponses ==
  { [fastestFee |-> <<10>>, halfHourFee |-> <<10>>, hourFee |-> <<>>,
     economyFee |-> <<1>>, minimumFee |-> <<0>>] }

\* Faulty variant of OrOne: no substitute for an absent tier.
OrZero(v) == IF v = <<>> THEN 0 ELSE v[1]

\* data.tier || 1: undefined and 0 are both falsy.
OrOne(v) == IF v = <<>> \/ v = <<0>> THEN 1 ELSE v[1]

\* getFeeRates, from the parsed body on.
getFeeRates(data) == [t \in Tiers |-> OrOne(data[t])]

\* The block-count keys of the legacy fee endpoint, by tier.
LegacyKey(t) ==
  CASE t = "fastestFee"  -> "1"
    [] t = "halfHourFee" -> "3"
    [] t = "hourFee"     -> "6"
    [] t = "economyFee"  -> "144"
    [] t = "minimumFee"  -> "504"

LegacyKeys == { LegacyKey(t) : t \in Tiers }

\* Legacy estimates are fractional: they are kept in tenths of a sat/vB.
LegacyValues == { <<>>, <<0>>, <<10>>, <<23>> }

LegacyFeeBodies == [LegacyKeys -> LegacyValues]

\* Math.ceil(data[key] || 1), the estimate in tenths.
CeilOrOne(v) == IF v = <<>> \/ v = <<0>> THEN 1 ELSE (v[1] + 9) \div 10

\* The legacy getFeeRates, from the parsed body on.
getFeeRatesLegacy(data) == [t \in Tiers |-> CeilOrOne(data[LegacyKey(t)])]

\* feeRateMap[feeSpeed]
FeeRateMap(feeRates, speed) ==
  CASE speed = "fastest"  -> feeRates.fastestFee
    [] speed = "halfHour" -> feeRates.halfHourFee
    [] speed = "hour"     -> feeRates.hourFee
    [] speed = "economy"  -> feeRates.economyFee

\* Bodies of the per-address output endpoint: the address holds the first
\* k outputs of its history.
UtxoResponses ==
  { SubSeq(UtxoHistory, 1, k) : k \in 0..MaxHeld } \cap UtxoPrefixes

\* The query under the component's current key: its data, whether a request
\* is in flight, whether a request for it has ever been sent to the
\* explorer, and whether a build has already consumed this data; for the
\* fee query also the error of its last request and the response that
\* request received. The
\* query of a key the component has left is taken to be collected before the
\* component returns to that key (gcTime).
\* The field from holds the request the data came from.
NoUtxoData ==
  [hasData |-> FALSE, data |-> <<>>, fetching |-> FALSE, used |-> FALSE,
   asked |-> FALSE, from |-> <<>>]

NoFeeData ==
  [hasData |-> FALSE, data |-> NoSchedule, fetching |-> FALSE, used |-> FALSE,
   asked |-> FALSE, error |-> "", response |-> <<>>, from |-> <<>>]

\* fetchUTXOs(address, network): the explorer and the address it asks about.
UtxoRequest(address, net) == <<getApiUrl(net), address>>

\* getFeeRates(network): the explorer it asks.
FeeRequest(net) == <<getApiUrl(net)>>

\* Faulty variant of EntryOfNewKey: the data of the key left behind is shown
\* under the new key until the new key's request returns.
EntryKeptOver(old, fresh) ==
  [fresh EXCEPT !.hasData = old.hasData, !.data = old.data,
                !.from = old.from]

\* useQuery after a change of queryKey: the entry of the new key, which
\* holds nothing of the old one.
EntryOfNewKey(old, fresh) == fresh

\* useQuery results of the current render.
utxosEntry == utxosQuery

feeEntry == feeQuery

isLoadingUtxos == utxosEntry.fetching /\ ~utxosEntry.hasData

isLoadingFees == feeEntry.fetching /\ ~feeEntry.hasData

totalBalance ==
  IF utxosEntry.hasData THEN SumValues(utxosEntry.data) ELSE 0

\* A stale or missing query with an observer that became enabled fetches,
\* unless a request for it is already in flight (staleTime: 0).
StartFetch(q) == [q EXCEPT !.fetching = TRUE, !.asked = TRUE]

\* JavaScript runs a handler and its microtasks to completion: events are
\* taken only while no send is between two awaits.
Quiescent == mpc \in {"idle", "broadcasting"}

\* The form (third return of the component) is what the dialog shows.
FormShown == isOpen /\ txId = "" /\ hasNsecAccess

NoOutcome == [kind |-> "none", txId |-> "", fee |-> 0, message |-> ""]

\* What the running send attempt has done so far: calls of the builder and
\* of the broadcaster, rejections of mutationFn, what it was given and from
\* which requests that came, and where it posted which transaction, with
\* what response.
NoAttempt == [builds |-> 0, broadcasts |-> 0, failures |-> 0,
              emptyUtxos |-> FALSE, reusedUtxos |-> FALSE,
              reusedFees |-> FALSE, submittedTo |-> "", submitted |-> <<>>,
              answer |-> <<>>, utxosFrom |-> <<>>, feesFrom |-> <<>>]

\* useMutation is given no retry option, and the default for mutations is
\* no retry.
MutationRetry == 0

\* Faulty variant of ShouldRetry: one automatic retry.
RetryOnFirstFailure(failureCount) == failureCount < 1

\* Whether a rejected mutationFn is run again.
ShouldRetry(failureCount) == failureCount < MutationRetry

\* ------------------------------------------------- the page and the cache

\* Index: the Send Bitcoin button, disabled without nsec access. Its other
\* condition, a non-zero balance, reads the page's own address query, which
\* says nothing about what the dialog's queries will return.
OpenDialog ==
  /\ Quiescent
  /\ ~isOpen
  /\ hasNsecAccess
  /\ isOpen' = TRUE
  /\ utxosQuery' = IF senderAddress # <<>>
                     THEN StartFetch(utxosQuery) ELSE utxosQuery
  /\ feeQuery' = StartFetch(feeQuery)
  /\ UNCHANGED <<network, loginType, nsecStored, userPubkey, ECPair>>
  /\ UNCHANGED <<recipient, amount, feeSpeed, error, txId>>
  /\ UNCHANGED <<buildVars, sendVars>>

\* BitcoinNetworkSelector.handleNetworkChange: the query keys change with
\* the network, and enabled queries under the new keys fetch.
HandleNetworkChange ==
  /\ Quiescent
  /\ \E net \in BitcoinNetwork \ {network} :
       /\ network' = net
       /\ utxosQuery' = IF isOpen /\ senderAddressOn(net) # <<>>
                          THEN StartFetch(EntryOfNewKey(utxosQuery, NoUtxoData))
                          ELSE EntryOfNewKey(utxosQuery, NoUtxoData)
       /\ feeQuery' = IF isOpen
                        THEN StartFetch(EntryOfNewKey(feeQuery, NoFeeData))
                        ELSE EntryOfNewKey(feeQuery, NoFeeData)
  /\ UNCHANGED <<loginType, nsecStored, userPubkey, ECPair>>
  /\ UNCHANGED <<formVars, buildVars, sendVars>>

\* fetchUTXOs settles: the body of a success response becomes the query's
\* data; a failure leaves the data as it was.
UtxosRespond ==
  /\ Quiescent
  /\ utxosQuery.fetching
  /\ \E ok \in BOOLEAN, body \in UtxoResponses :
       utxosQuery' =
         IF ok THEN [hasData |-> TRUE, data |-> body,
                     fetching |-> FALSE, used |-> FALSE, asked |-> TRUE,
                     from |-> UtxoRequest(senderAddress, network)]
               ELSE [utxosQuery EXCEPT !.fetching = FALSE]
  /\ UNCHANGED <<network, loginType, nsecStored, userPubkey, feeQuery, ECPair>>
  /\ UNCHANGED <<formVars, buildVars, sendVars>>

\* A request of the fee query settles on a response: a success response
\* makes the schedule the query's data, a failure throws and leaves the data
\* as it was.
FeeSettle(response) ==
  /\ feeQuery.fetching
  /\ feeQuery' =
       IF response.ok
         THEN [feeQuery EXCEPT
                 !.hasData = TRUE,
                 !.data = IF response.legacy
                            THEN getFeeRatesLegacy(response.body)
                            ELSE getFeeRates(response.body),
                 !.fetching = FALSE, !.used = FALSE, !.error = "",
                 !.response = <<response>>,
                 !.from = FeeRequest(network)]
         ELSE [feeQuery EXCEPT
                 !.fetching = FALSE,
                 !.error = "Failed to fetch fee estimates",
                 !.response = <<response>>]
  /\ UNCHANGED <<network, loginType, nsecStored, userPubkey, utxosQuery,
                 ECPair>>
  /\ UNCHANGED <<formVars, buildVars, sendVars>>

\* getFeeRates settles.
FeeRespond ==
  /\ Quiescent
  /\ \E ok \in BOOLEAN, body \in FeeResponses :
       FeeSettle([ok |-> ok, body |-> body, legacy |-> FALSE])

\* getFeeRates settles on any body.
FeeRespondAny ==
  \E ok \in BOOLEAN, body \in FeeBodies :
    FeeSettle([ok |-> ok, body |-> body, legacy |-> FALSE])

\* The legacy getFeeRates settles on any body.
FeeRespondLegacy ==
  \E ok \in BOOLEAN, body \in LegacyFeeBodies :
    FeeSettle([ok |-> ok, body |-> body, legacy |-> TRUE])

\* ------------------------------------------------------ SendBitcoinDialog

SetRecipient ==
  /\ Quiescent
  /\ FormShown
  /\ \E text \in RecipientChoices : recipient' = text
  /\ error' = ""
  /\ UNCHANGED <<isOpen, amount, feeSpeed, txId>>
  /\ UNCHANGED <<appVars, buildVars, sendVars>>

SetAmount ==
  /\ Quiescent
  /\ FormShown
  /\ \E text \in AmountTexts : amount' = text
  /\ error' = ""
  /\ UNCHANGED <<isOpen, recipient, feeSpeed, txId>>
  /\ UNCHANGED <<appVars, buildVars, sendVars>>

\* The Send Max button.
SendMax ==
  /\ Quiescent
  /\ FormShown
  /\ amount' = satsToBTC(totalBalance)
  /\ UNCHANGED <<isOpen, recipient, feeSpeed, error, txId>>
  /\ UNCHANGED <<appVars, buildVars, sendVars>>

SetFeeSpeed ==
  /\ Quiescent
  /\ FormShown
  /\ \E v \in FeeSpeeds : feeSpeed' = v
  /\ UNCHANGED <<isOpen, recipient, amount, error, txId>>
  /\ UNCHANGED <<appVars, buildVars, sendVars>>

handleClose ==
  /\ Quiescent
  /\ isOpen
  /\ recipient' = <<>>
  /\ amount' = AmountEmpty
  /\ error' = ""
  /\ txId' = ""
  /\ feeSpeed' = "halfHour"
  /\ isOpen' = FALSE
  /\ UNCHANGED <<appVars, buildVars, sendVars>>

\* Faulty variant of SendDisabled: a pending send does not disable the
\* button.
DisabledUnlessPending ==
  \/ recipient = <<>>
  \/ amount.kind = "empty"
  \/ (amount.kind = "num" /\ amount.m <= 0)
  \/ isLoadingUtxos
  \/ isLoadingFees

\* The Send button's disabled condition.
SendDisabled ==
  \/ recipient = <<>>
  \/ amount.kind = "empty"
  \/ (amount.kind = "num" /\ amount.m <= 0)
  \/ isLoadingUtxos
  \/ isLoadingFees
  \/ mstatus = "pending"

\* Faulty variant of ErrorOnSend: the last error survives a new send.
ErrorKeptOnSend == error

\* setError('') of handleSend.
ErrorOnSend == ""

handleSend ==
  /\ Quiescent
  /\ FormShown
  /\ ~SendDisabled
  /\ error' = ErrorOnSend
  /\ txId' = ""
  /\ mstatus' = "pending"
  /\ mpc' = "mutationFn"
  /\ outcome' = NoOutcome
  /\ attempt' = NoAttempt
  /\ UNCHANGED <<isOpen, recipient, amount, feeSpeed>>
  /\ UNCHANGED <<appVars, buildVars>>

Rejected(msg) == [NoOutcome EXCEPT !.kind = "error", !.message = msg]

Resolved(id, fee) == [NoOutcome EXCEPT !.kind = "ok", !.txId = id, !.fee = fee]

\* if (!utxos || utxos.length === 0)
NoUtxosAvailable(entry) == ~entry.hasData \/ entry.data = <<>>

\* Faulty variant of InvalidAmount: an amount of zero satoshis passes.
NegativeAmount(sats) == sats < 0

\* isNaN(amountSats) || amountSats <= 0, for a number.
InvalidAmount(sats) == sats <= 0

\* The checks of mutationFn before the build, in their order: the message
\* of the first one that throws, or "".
ValidationError ==
  IF ~user \/ ~hasNsecAccess
    THEN "You must be logged in with nsec to send Bitcoin"
  ELSE IF getPrivateKey = "" THEN "Failed to access private key"
  ELSE IF NoUtxosAvailable(utxosEntry) THEN "No UTXOs available"
  ELSE IF ~feeEntry.hasData THEN "Fee rates not loaded"
  ELSE IF ~ParseRecipient(recipient, network).ok
    THEN "Invalid recipient address or npub"
  ELSE IF amount.kind # "num" \/ InvalidAmount(btcToSats(amount))
    THEN "Invalid amount"
  ELSE ""

\* mutationFn up to its first await: the checks, then the call of
\* createBitcoinTransaction with the data of the current render.
mutationFn ==
  /\ mpc = "mutationFn"
  /\ IF ValidationError # ""
       THEN /\ outcome' = Rejected(ValidationError)
            /\ mpc' = "settle"
            /\ attempt' = [attempt EXCEPT
                             !.emptyUtxos = NoUtxosAvailable(utxosEntry)]
            /\ UNCHANGED <<buildVars, utxosQuery, feeQuery>>
       ELSE /\ call' = [privateKeyHex |-> getPrivateKey,
                        toAddress |-> ParseRecipient(recipient, network).address,
                        amountSats |-> btcToSats(amount),
                        utxos |-> utxosEntry.data,
                        feeRate |-> FeeRateMap(feeEntry.data, feeSpeed),
                        network |-> network]
            /\ bpc' = "keyPair"
            /\ mpc' = "building"
            /\ attempt' = [attempt EXCEPT
                             !.builds = @ + 1,
                             !.emptyUtxos = NoUtxosAvailable(utxosEntry),
                             !.reusedUtxos = utxosEntry.used,
                             !.reusedFees = feeEntry.used,
                             !.utxosFrom = utxosEntry.from,
                             !.feesFrom = feeEntry.from]
            /\ utxosQuery' = [utxosQuery EXCEPT !.used = TRUE]
            /\ feeQuery' = [feeQuery EXCEPT !.used = TRUE]
            /\ UNCHANGED <<internalPubkey, changeAddress, psbt, totalInput,
                           estimatedFee, change, tweakCount, result>>
            /\ UNCHANGED outcome
  /\ UNCHANGED <<network, loginType, nsecStored, userPubkey, ECPair, formVars,
                 mstatus>>

\* fetch(`${apiUrl}/tx`, {method: 'POST', body: txHex})
SubmissionUrl(net) == getApiUrl(net) \o "/tx"

\* await createBitcoinTransaction(...) yields {txHex, fee} unless it threw.
BuildSucceeded(res) == res.kind = "ok"

\* The build has returned: a throw rejects the mutation, a transaction is
\* handed to broadcastTransaction, whose request goes out.
afterBuild ==
  /\ mpc = "building"
  /\ bpc = "done"
  /\ IF BuildSucceeded(result)
       THEN /\ mpc' = "broadcasting"
            /\ attempt' = [attempt EXCEPT
                             !.broadcasts = @ + 1,
                             !.submittedTo = SubmissionUrl(call.network),
                             !.submitted = <<result.txHex>>]
            /\ UNCHANGED outcome
       ELSE /\ mpc' = "settle"
            /\ outcome' = Rejected(result.message)
            /\ UNCHANGED attempt
  /\ UNCHANGED <<appVars, formVars, buildVars, mstatus>>

\* Responses of the explorer's submission endpoint.
BroadcastResponses ==
  { [ok |-> TRUE,  body |-> "txid1"],
    [ok |-> FALSE, body |-> "bad-txns-inputs-missingorspent"] }

\* Faulty variant of broadcastTransaction: the explorer's reason is dropped.
broadcastTransactionTerse(response) ==
  IF response.ok
    THEN [ok |-> TRUE, value |-> response.body]
    ELSE [ok |-> FALSE, value |-> "Failed to broadcast transaction"]

\* broadcastTransaction, from the response on.
broadcastTransaction(response) ==
  IF response.ok
    THEN [ok |-> TRUE, value |-> response.body]
    ELSE [ok |-> FALSE,
          value |-> "Failed to broadcast transaction: " \o response.body]

\* The explorer answers the submission; mutationFn returns {txId, fee} or
\* rejects.
broadcastRespond ==
  /\ mpc = "broadcasting"
  /\ \E response \in BroadcastResponses :
       LET r == broadcastTransaction(response) IN
         /\ outcome' = IF r.ok THEN Resolved(r.value, result.fee)
                               ELSE Rejected(r.value)
         /\ attempt' = [attempt EXCEPT !.answer = <<response>>]
  /\ mpc' = "settle"
  /\ UNCHANGED <<appVars, formVars, buildVars, mstatus>>

\* The builder's frame is gone once mutationFn has settled.
BuildReturned ==
  /\ bpc' = "idle"
  /\ call' = NoCall
  /\ internalPubkey' = ""
  /\ changeAddress' = <<>>
  /\ psbt' = EmptyPsbt
  /\ totalInput' = 0
  /\ estimatedFee' = 0
  /\ change' = 0
  /\ tweakCount' = 0
  /\ result' = NoResult

\* Faulty variant of SetTxId: the result of a send is dropped once the dialog
\* has been closed.
SetTxIdWhileOpen(id) == IF isOpen THEN id ELSE ""

\* setTxId(txId) of onSuccess.
SetTxId(id) == id

onSuccess ==
  /\ mpc = "settle"
  /\ outcome.kind = "ok"
  /\ txId' = SetTxId(outcome.txId)
  /\ mstatus' = "success"
  /\ mpc' = "idle"
  /\ attempt' = NoAttempt
  /\ outcome' = NoOutcome
  /\ BuildReturned
  /\ UNCHANGED <<isOpen, recipient, amount, feeSpeed, error>>
  /\ UNCHANGED appVars

\* mutationFn rejected: it is run again while retries are left, else the
\* error reaches the dialog.
onError ==
  /\ mpc = "settle"
  /\ outcome.kind = "error"
  /\ IF ShouldRetry(attempt.failures)
       THEN /\ mpc' = "mutationFn"
            /\ attempt' = [attempt EXCEPT !.failures = @ + 1]
            /\ UNCHANGED <<error, mstatus>>
       ELSE /\ error' = outcome.message
            /\ mstatus' = "error"
            /\ mpc' = "idle"
            /\ attempt' = NoAttempt
  /\ outcome' = NoOutcome
  /\ BuildReturned
  /\ UNCHANGED <<isOpen, recipient, amount, feeSpeed, txId>>
  /\ UNCHANGED appVars

\* ------------------------------------------------------- specifications

\* The dialog of a fresh page load.
FormInit ==
  /\ isOpen = FALSE
  /\ recipient = <<>>
  /\ amount = AmountEmpty
  /\ feeSpeed = "halfHour"
  /\ error = ""
  /\ txId = ""

CacheInit ==
  /\ utxosQuery = NoUtxoData
  /\ feeQuery = NoFeeData

\* lib/bitcoin.ts as loaded: let ECPair = null.
LibInit == ECPair = 0

\* A page load: any stored network, any login.
InitPage ==
  /\ network \in BitcoinNetwork
  /\ loginType \in LoginTypes
  /\ nsecStored \in NsecStoredChoices
  /\ loginType # "nsec" => nsecStored = "missing"
  /\ userPubkey \in UserPubkeys
  /\ loginType = "none" => userPubkey = "P1"
  /\ CacheInit
  /\ LibInit
  /\ FormInit
  /\ mstatus = "idle"
  /\ mpc = "idle"
  /\ outcome = NoOutcome
  /\ attempt = NoAttempt
  /\ BuildIdle

\* createBitcoinTransaction called on its own, with any arguments.
InitBuild ==
  /\ bpc = "keyPair"
  /\ call \in [privateKeyHex : PrivateKeys, toAddress : ToAddressChoices,
               amountSats : AmountChoices, utxos : UtxoLists,
               feeRate : FeeRateChoices, network : BitcoinNetwork]
  /\ BuildLocalsInit
  /\ network = call.network
  /\ loginType = "none"
  /\ nsecStored = "missing"
  /\ userPubkey = "P1"
  /\ CacheInit
  /\ LibInit
  /\ FormInit
  /\ mstatus = "idle"
  /\ mpc = "direct"
  /\ outcome = NoOutcome
  /\ attempt = NoAttempt

Init == InitPage \/ InitBuild

Next ==
  \/ OpenDialog
  \/ HandleNetworkChange
  \/ UtxosRespond
  \/ FeeRespond
  \/ SetRecipient
  \/ SetAmount
  \/ SendMax
  \/ SetFeeSpeed
  \/ handleClose
  \/ handleSend
  \/ mutationFn
  \/ afterBuild
  \/ broadcastRespond
  \/ onSuccess
  \/ onError
  \/ NextBuild

\* The page, with the builder also callable on its own.
Spec == Init /\ [][Next]_vars

\* The builder alone.
SpecBuild == InitBuild /\ [][NextBuild]_vars

\* createBitcoinTransaction is called again, with any key and any output
\* set, once the call before it has returned or thrown; attempt.builds
\* counts the calls that came before.
CallAgain ==
  /\ mpc = "direct"
  /\ bpc = "done"
  /\ attempt.builds < MaxCalls
  /\ \E key \in PrivateKeys, utxos \in UtxoLists :
       call' = [call EXCEPT !.privateKeyHex = key, !.utxos = utxos]
  /\ UNCHANGED network
  /\ bpc' = "keyPair"
  /\ internalPubkey' = ""
  /\ changeAddress' = <<>>
  /\ psbt' = EmptyPsbt
  /\ totalInput' = 0
  /\ estimatedFee' = 0
  /\ change' = 0
  /\ tweakCount' = 0
  /\ result' = NoResult
  /\ attempt' = [attempt EXCEPT !.builds = @ + 1]
  /\ UNCHANGED <<loginType, nsecStored, userPubkey, utxosQuery, feeQuery,
                 ECPair>>
  /\ UNCHANGED <<formVars, mstatus, mpc, outcome>>

NextCalls ==
  \/ NextBuild
  \/ CallAgain

\* The builder called time after time in one page.
SpecCalls == InitBuild /\ [][NextCalls]_vars

\* The dialog has just been opened by a signed-in user: both queries have a
\* request in flight.
InitOpened ==
  /\ network \in BitcoinNetwork
  /\ loginType = "nsec"
  /\ nsecStored = "nsec"
  /\ userPubkey = "P1"
  /\ utxosQuery = StartFetch(NoUtxoData)
  /\ feeQuery = StartFetch(NoFeeData)
  /\ LibInit
  /\ isOpen = TRUE
  /\ recipient = <<>>
  /\ amount = AmountEmpty
  /\ feeSpeed = "halfHour"
  /\ error = ""
  /\ txId = ""
  /\ mstatus = "idle"
  /\ mpc = "idle"
  /\ outcome = NoOutcome
  /\ attempt = NoAttempt
  /\ BuildIdle

\* The amount field takes any amount.
SetAmountAny ==
  /\ Quiescent
  /\ FormShown
  /\ \E text \in AmountInputs : amount' = text
  /\ error' = ""
  /\ UNCHANGED <<isOpen, recipient, feeSpeed, txId>>
  /\ UNCHANGED <<appVars, buildVars, sendVars>>

\* The dialog is open and both queries have been answered, the output
\* query with any output set.
InitAnswered ==
  /\ network \in BitcoinNetwork
  /\ loginType = "nsec"
  /\ nsecStored = "nsec"
  /\ userPubkey = "P1"
  /\ \E body \in UtxoLists :
       utxosQuery = [NoUtxoData EXCEPT
                       !.hasData = TRUE, !.data = body, !.asked = TRUE,
                       !.from = UtxoRequest(senderAddress, network)]
  /\ \E body \in FeeResponses :
       feeQuery = [NoFeeData EXCEPT
                     !.hasData = TRUE, !.data = getFeeRates(body),
                     !.asked = TRUE, !.from = FeeRequest(network),
                     !.response = << [ok |-> TRUE, body |-> body,
                                      legacy |-> FALSE] >>]
  /\ LibInit
  /\ isOpen = TRUE
  /\ recipient = <<>>
  /\ amount = AmountEmpty
  /\ feeSpeed = "halfHour"
  /\ error = ""
  /\ txId = ""
  /\ mstatus = "idle"
  /\ mpc = "idle"
  /\ outcome = NoOutcome
  /\ attempt = NoAttempt
  /\ BuildIdle

NextAmounts ==
  \/ SetAmountAny
  \/ SendMax

\* The amount field alone: typed amounts and Send Max.
SpecAmounts == InitAnswered /\ [][NextAmounts]_vars

NextFees ==
  \/ FeeRespondAny
  \/ FeeRespondLegacy

\* The fee request alone, answered with any body, by either version of
\* getFeeRates.
SpecFees == InitOpened /\ [][NextFees]_vars

\* ------------------------------------------------------------- properties

\* createBitcoinTransaction has returned {txHex, fee}.
Built == bpc = "done" /\ result.kind = "ok"

\* The funds check has run in this call.
Estimated ==
  \/ bpc \in {"addOutput", "addChange", "tweak", "sign", "extract"}
  \/ bpc = "done" /\ result.kind = "ok"
  \/ bpc = "done" /\ result.message \in {"Insufficient funds",
                                         "Invalid output", "No input #0"}

\* The key is accepted and no outpoint is supplied twice, so that the call
\* gets as far as the funds check.
InputsAccepted ==
  /\ ValidXOnly(XOnlyPubkey(call.privateKeyHex))
  /\ \A i, j \in DOMAIN call.utxos :
       (call.utxos[i].txid = call.utxos[j].txid
          /\ call.utxos[i].vout = call.utxos[j].vout) => i = j

\* C1: for every successful build with total input T, the returned fee
\* satisfies T = change + amountSats + fee when a change output was created,
\* and fee + amountSats = T when none was.
C1_FeeAccounting ==
  Built =>
    IF Len(result.txHex.outs) = 2
      THEN SumValues(call.utxos) =
             result.txHex.outs[2].value + call.amountSats + result.fee
      ELSE result.fee + call.amountSats = SumValues(call.utxos)

\* C2: when the supplied outputs sum to less than amountSats + estimatedFee
\* the call fails, and, the key and the inputs being accepted, with the
\* insufficient-funds error reporting required = amountSats + estimatedFee
\* and available = the sum; every successful build has total input >=
\* amountSats + fee.
C2_InsufficientFunds ==
  /\ (bpc = "done"
        /\ SumValues(call.utxos) <
             call.amountSats + EstimatedFee(Len(call.utxos), call.feeRate))
       => /\ result.kind = "error"
          /\ InputsAccepted =>
               /\ result.message = "Insufficient funds"
               /\ result.required =
                    call.amountSats
                      + EstimatedFee(Len(call.utxos), call.feeRate)
               /\ result.available = SumValues(call.utxos)
  /\ Built => SumValues(call.utxos) >= call.amountSats + result.fee

C2_Witness ==
  /\ bpc = "done"
  /\ result.message = "Insufficient funds"
  /\ result.required = 100001
  /\ result.available = 100000

\* C3: a change of exactly 546 creates no change output, a change of 547
\* creates one; a change output exists iff change > 546, and no output of the
\* draft after the first is ever worth 546 or less.
C3_DustBoundary ==
  /\ Built =>
       /\ change = 546 => Len(result.txHex.outs) = 1
       /\ change = 547 => Len(result.txHex.outs) = 2
       /\ Len(result.txHex.outs) = 2 <=> change > 546
  /\ \A i \in DOMAIN psbt.outputs : i > 1 => psbt.outputs[i].value > 546

C3_Witness ==
  /\ Built
  /\ change = 546
  /\ Len(result.txHex.outs) = 1

\* C4: the fee for n supplied outputs at rate r is
\* ceil((57.5 n + 2 * 43 + 10.5) r), the size of a two-output transaction
\* whether or not a change output is created, rounded up to a whole satoshi;
\* it is the fee the call returns.
C4_FeeFormula ==
  /\ Estimated =>
       /\ 2 * estimatedFee >= (115 * Len(call.utxos) + 193) * call.feeRate
       /\ 2 * (estimatedFee - 1) < (115 * Len(call.utxos) + 193) * call.feeRate
  /\ Built => result.fee = estimatedFee

\* One output created, and a product with a half satoshi to round up.
C4_Witness ==
  /\ Built
  /\ Len(result.txHex.outs) = 1
  /\ Len(call.utxos) = 2
  /\ call.feeRate = 1
  /\ estimatedFee = 212

\* The call of the end-to-end scenario: one output of 100,000, amount
\* 50,000, 10 sat/vB, with a key and a destination the call accepts.
Scenario ==
  /\ bpc = "done"
  /\ Len(call.utxos) = 1
  /\ call.utxos[1].value = 100000
  /\ call.amountSats = 50000
  /\ call.feeRate = 10
  /\ ValidXOnly(XOnlyPubkey(call.privateKeyHex))
  /\ ValidAddressFor(call.toAddress, getNetwork(call.network))

\* C5 as stated: the scenario yields fee 1535 and change 48465, with two
\* outputs.
C5_ScenarioAsStated ==
  Scenario =>
    /\ result.kind = "ok"
    /\ result.fee = 1535
    /\ change = 48465
    /\ Len(result.txHex.outs) = 2

\* C5, amended: the scenario yields fee 1540 (154 vbytes) and change 48460,
\* with two outputs, the second worth the change.
C5_Scenario ==
  Scenario =>
    /\ result.kind = "ok"
    /\ result.fee = 1540
    /\ change = 48460
    /\ Len(result.txHex.outs) = 2
    /\ result.txHex.outs[1].value = 50000
    /\ result.txHex.outs[2].value = 48460

C5_Witness ==
  /\ Scenario
  /\ result.kind = "ok"
  /\ result.txHex.outs[2].value = 48460

\* C6: every built transaction has one destination output, of value
\* amountSats to the supplied address, and at most one change output, of
\* value totalInput - amountSats - fee to the signer's own Taproot address on
\* the selected network: one or two outputs in all.
C6_Outputs ==
  Built =>
    LET outs == result.txHex.outs IN
      /\ Len(outs) \in {1, 2}
      /\ outs[1] = [address |-> call.toAddress, value |-> call.amountSats]
      /\ Len(outs) = 2 =>
           /\ outs[2].value =
                SumValues(call.utxos) - call.amountSats - result.fee
           /\ outs[2].address =
                << IF call.network = "mainnet" THEN "bc1p" ELSE "tb1p",
                   XOnlyPubkey(call.privateKeyHex) >>

\* A change output on a test network.
C6_Witness ==
  /\ Built
  /\ call.network = "testnet4"
  /\ Len(result.txHex.outs) = 2
  /\ result.txHex.outs[2].address = <<"tb1p", "P1">>

\* C7: in every built transaction each supplied output, confirmed or not,
\* is referenced as an input exactly once: as many inputs as supplied
\* outputs, in their order, totalInput the sum of their values, and no
\* (txid, vout) referenced twice.
C7_Inputs ==
  Built =>
    LET ins == result.txHex.ins IN
      /\ Len(ins) = Len(call.utxos)
      /\ \A i \in DOMAIN ins :
           ins[i] = <<call.utxos[i].txid, call.utxos[i].vout>>
      /\ totalInput = SumValues(call.utxos)
      /\ \A i, j \in DOMAIN ins : ins[i] = ins[j] => i = j

\* Two inputs, one of them unconfirmed.
C7_Witness ==
  /\ Built
  /\ Len(result.txHex.ins) = 2
  /\ \E i \in DOMAIN call.utxos : ~call.utxos[i].confirmed

\* C8: createBitcoinTransaction called with no outputs never returns a
\* transaction, whatever the amount and the fee rate, and a send attempt
\* whose fetched output set is empty or missing neither builds nor
\* broadcasts.
C8_EmptyOutputSet ==
  /\ (bpc # "idle" /\ call.utxos = <<>>) => result.kind # "ok"
  /\ (bpc = "done" /\ call.utxos = <<>>) => result.kind = "error"
  /\ attempt.emptyUtxos => attempt.builds = 0 /\ attempt.broadcasts = 0
  /\ mpc \in {"building", "broadcasting"} => call.utxos # <<>>
  /\ (mpc = "settle" /\ attempt.emptyUtxos) =>
       outcome.kind = "error" /\ outcome.txId = ""

\* A send attempt over an empty fetched set has been rejected.
C8_Witness ==
  /\ mpc = "settle"
  /\ utxosQuery.hasData
  /\ utxosQuery.data = <<>>
  /\ attempt.emptyUtxos
  /\ outcome.message = "No UTXOs available"

\* What holds of a send attempt in every state.
C9_AttemptState ==
  /\ attempt.builds <= 1
  /\ attempt.broadcasts <= 1
  /\ attempt.broadcasts = 1 => attempt.builds = 1 /\ Built
  /\ mpc \in {"idle", "direct", "mutationFn", "building", "broadcasting"}
       => outcome.kind = "none"
  /\ mpc = "settle" =>
       \/ /\ outcome.kind = "ok"
          /\ outcome.txId # ""
          /\ outcome.message = ""
          /\ outcome.fee = result.fee
          /\ attempt.broadcasts = 1
       \/ /\ outcome.kind = "error"
          /\ outcome.message # ""
          /\ outcome.txId = ""
  /\ mstatus = "pending" <=> mpc \in {"mutationFn", "building",
                                      "broadcasting", "settle"}

\* What holds of every step that ends a send attempt: it is the one step
\* that leaves the pending status, and it hands the dialog either the
\* transaction id or the error message.
C9_AttemptEnd ==
  (mstatus = "pending" /\ mstatus' # "pending") =>
    /\ mpc = "settle"
    /\ mpc' = "idle"
    /\ \/ /\ outcome.kind = "ok"
          /\ mstatus' = "success"
          /\ txId' = outcome.txId
          /\ txId' # ""
          /\ error' = ""
       \/ /\ outcome.kind = "error"
          /\ mstatus' = "error"
          /\ error' = outcome.message
          /\ error' # ""
          /\ txId' = ""

\* C9: a send attempt has one terminal outcome, success with a transaction
\* id and fee or failure with an error message, never both; within the
\* attempt the builder is called at most once and the broadcaster at most
\* once, and the broadcaster only after the builder has returned a
\* transaction.
C9_OneOutcome == []C9_AttemptState /\ [][C9_AttemptEnd]_vars

\* A broadcast was refused: the attempt is about to fail, after one build
\* and one broadcast.
C9_Witness ==
  /\ mpc = "settle"
  /\ outcome.kind = "error"
  /\ attempt.builds = 1
  /\ attempt.broadcasts = 1

\* C10: no send attempt builds from an output set or a fee schedule that an
\* earlier attempt has already built from.
C10_FreshData ==
  attempt.builds > 0 => ~attempt.reusedUtxos /\ ~attempt.reusedFees

\* The messages of the checks on the key, the recipient and the amount.
InputValidationMessages ==
  { "You must be logged in with nsec to send Bitcoin",
    "Failed to access private key",
    "Invalid recipient address or npub",
    "Invalid amount" }

\* mutationFn has rejected on one of the input checks.
InputRejected ==
  mpc = "settle" /\ outcome.message \in InputValidationMessages

\* C11 as stated: an input check fails before any explorer call has been
\* made, and neither the builder nor the broadcaster is called.
C11_BeforeAnyNetworkCall ==
  InputRejected =>
    /\ ~utxosQuery.asked
    /\ ~feeQuery.asked
    /\ attempt.builds = 0
    /\ attempt.broadcasts = 0

\* C11, amended: an input check fails before the builder and the
\* broadcaster are called, and neither is called in that attempt; the
\* builder runs only on a key, a recipient form and an amount that passed.
\* The explorer has by then been asked for the fee schedule, which the
\* dialog requests when it opens.
C11_ValidationBeforeBuild ==
  /\ InputRejected =>
       /\ attempt.builds = 0
       /\ attempt.broadcasts = 0
       /\ bpc = "idle"
       /\ feeQuery.asked
  /\ mpc = "building" =>
       /\ getPrivateKey # ""
       /\ call.privateKeyHex = getPrivateKey
       /\ recipient # <<>>
       /\ recipient[1] \in {"npub1", "bc1p", "tb1p"}
       /\ amount.kind = "num"
       /\ btcToSats(amount) > 0
       /\ call.amountSats = btcToSats(amount)

\* An amount below half a satoshi is rejected, with both queries answered.
C11_Witness ==
  /\ InputRejected
  /\ outcome.message = "Invalid amount"
  /\ utxosQuery.hasData
  /\ feeQuery.hasData
  /\ attempt.builds = 0

\* The three explorer base URLs.
ExplorerUrls ==
  { "https://mempool.space/api",
    "https://mempool.space/testnet/api",
    "https://mempool.space/testnet4/api" }

\* C12: getNetwork gives testnet and testnet4 the same chain parameters
\* (prefix tb1p) and mainnet its own (prefix bc1p); getApiUrl gives the three
\* networks three pairwise distinct base URLs; both have a value for every
\* network. The builder's change address and the submission of a send
\* follow the selected network accordingly.
C12_NetworkResolver ==
  /\ getNetwork(network) \in {"bitcoin", "testnet"}
  /\ AddressPrefix(getNetwork(network)) =
       (IF network = "mainnet" THEN "bc1p" ELSE "tb1p")
  /\ getNetwork("testnet") = getNetwork("testnet4")
  /\ getNetwork("mainnet") # getNetwork("testnet")
  /\ getApiUrl(network) \in ExplorerUrls
  /\ \A other \in BitcoinNetwork \ {network} :
       getApiUrl(other) # getApiUrl(network)
  /\ changeAddress # <<>> =>
       changeAddress[1] =
         (IF call.network = "mainnet" THEN "bc1p" ELSE "tb1p")
  /\ attempt.submittedTo # "" =>
       attempt.submittedTo =
         (CASE call.network = "mainnet" -> "https://mempool.space/api/tx"
            [] call.network = "testnet" ->
                 "https://mempool.space/testnet/api/tx"
            [] call.network = "testnet4" ->
                 "https://mempool.space/testnet4/api/tx")

\* A send on testnet4: a tb1p change address, posted to the testnet4
\* explorer.
C12_Witness ==
  /\ mpc = "broadcasting"
  /\ call.network = "testnet4"
  /\ changeAddress = <<"tb1p", "P1">>
  /\ attempt.submittedTo = "https://mempool.space/testnet4/api/tx"

\* The last fee request got a success response.
FeeAnswered == feeQuery.response # <<>> /\ feeQuery.response[1].ok

\* The response member a tier is taken from.
TierMember(r, t) == IF r.legacy THEN r.body[LegacyKey(t)] ELSE r.body[t]

\* C13 as stated: on a success response all five tiers are returned, an
\* absent tier as 1 and a present tier as it is (rounded up in the legacy
\* version); a non-success response fails the call.
C13_PresentTierPassedThrough ==
  feeQuery.response # <<>> =>
    LET r == feeQuery.response[1] IN
      IF r.ok
        THEN /\ feeQuery.hasData
             /\ DOMAIN feeQuery.data = Tiers
             /\ \A t \in Tiers :
                  feeQuery.data[t] =
                    IF TierMember(r, t) = <<>> THEN 1
                    ELSE IF r.legacy THEN (TierMember(r, t)[1] + 9) \div 10
                    ELSE TierMember(r, t)[1]
        ELSE feeQuery.error = "Failed to fetch fee estimates"

\* C13, amended: on a success response all five tiers are returned, a tier
\* that is absent or zero as 1 and any other tier as it is (rounded up in
\* the legacy version), so every tier is at least 1; a non-success response
\* fails the call with an error and yields no schedule.
C13_FeeSchedule ==
  feeQuery.response # <<>> =>
    LET r == feeQuery.response[1] IN
      IF r.ok
        THEN /\ feeQuery.hasData
             /\ feeQuery.error = ""
             /\ DOMAIN feeQuery.data = Tiers
             /\ \A t \in Tiers :
                  /\ feeQuery.data[t] >= 1
                  /\ feeQuery.data[t] =
                       IF TierMember(r, t) \in {<<>>, <<0>>} THEN 1
                       ELSE IF r.legacy
                         THEN (TierMember(r, t)[1] + 9) \div 10
                       ELSE TierMember(r, t)[1]
        ELSE /\ feeQuery.error = "Failed to fetch fee estimates"
             /\ ~feeQuery.hasData

\* A body without the hour tier and with a minimum of 0.
C13_Witness ==
  /\ FeeAnswered
  /\ ~feeQuery.response[1].legacy
  /\ feeQuery.response[1].body.hourFee = <<>>
  /\ feeQuery.response[1].body.minimumFee = <<0>>
  /\ feeQuery.response[1].body.fastestFee = <<10>>
  /\ feeQuery.data.hourFee = 1
  /\ feeQuery.data.minimumFee = 1
  /\ feeQuery.data.fastestFee = 10

\* C14: broadcastTransaction posts the transaction once, to the explorer of
\* the network the send was started on; on a success response mutationFn gets
\* the response body as the transaction id, on any other response an error
\* whose message ends with the response body as it came, and no transaction
\* id.
C14_Broadcast ==
  /\ attempt.broadcasts <= 1
  /\ attempt.broadcasts = 1 =>
       /\ attempt.submittedTo = getApiUrl(call.network) \o "/tx"
       /\ attempt.submitted = <<result.txHex>>
       /\ Built
  /\ attempt.broadcasts = 0 =>
       attempt.submittedTo = "" /\ attempt.answer = <<>>
  /\ attempt.answer # <<>> =>
       LET r == attempt.answer[1] IN
         /\ mpc = "settle"
         /\ attempt.broadcasts = 1
         /\ IF r.ok
              THEN /\ outcome.kind = "ok"
                   /\ outcome.txId = r.body
                   /\ outcome.message = ""
              ELSE /\ outcome.kind = "error"
                   /\ outcome.txId = ""
                   /\ outcome.message =
                        "Failed to broadcast transaction: " \o r.body

\* The explorer refused the transaction.
C14_Witness ==
  /\ attempt.answer =
       << [ok |-> FALSE, body |-> "bad-txns-inputs-missingorspent"] >>
  /\ attempt.submittedTo = "https://mempool.space/api/tx"
  /\ outcome.message =
       "Failed to broadcast transaction: bad-txns-inputs-missingorspent"

\* mutationFn has applied npubToBitcoinAddress to the recipient of the form
\* in this attempt (the form cannot change before the attempt's first
\* await).
NpubApplied ==
  /\ recipient # <<>>
  /\ recipient[1] = "npub1"
  /\ \/ mpc = "building"
     \/ /\ mpc = "settle"
        /\ attempt.builds = 0
        /\ outcome.message \in {"Invalid recipient address or npub",
                                "Invalid amount"}

\* Empty addresses never reach a broadcast: without a sender address the
\* output query is never sent and nothing is built; a build given an empty
\* recipient address fails, so nothing is posted.
EmptyAddressIsFatal ==
  /\ (user /\ ~ValidXOnly(userPubkey)) => senderAddress = <<>>
  /\ senderAddress = <<>> =>
       /\ ~utxosQuery.asked
       /\ ~utxosQuery.hasData
       /\ attempt.builds = 0
       /\ attempt.broadcasts = 0
  /\ (bpc # "idle" /\ call.toAddress = <<>>) => result.kind # "ok"
  /\ attempt.broadcasts > 0 => call.toAddress # <<>>

\* C15 as stated: neither derivation throws past its boundary (a malformed
\* key or npub gives an empty result), and an empty sender or recipient
\* address never leads to a broadcast.
C15_NeverThrows ==
  /\ NpubApplied => ~npubToBitcoinAddress(recipient, network).threw
  /\ EmptyAddressIsFatal

\* C15, amended: nostrPubkeyToBitcoinAddress gives the empty address for a
\* malformed key and never throws; npubToBitcoinAddress gives the empty
\* address for an npub of a malformed key but throws for an npub that does
\* not decode, which mutationFn catches and reports as an invalid recipient
\* before any build; an empty sender or recipient address never leads to a
\* broadcast.
C15_EmptyAddress ==
  /\ NpubApplied =>
       LET r == npubToBitcoinAddress(recipient, network) IN
         /\ r.threw <=> (Len(recipient) < 2)
         /\ r.threw =>
              /\ mpc = "settle"
              /\ outcome.message = "Invalid recipient address or npub"
         /\ (~r.threw /\ ~ValidXOnly(recipient[2])) => r.address = <<>>
         /\ (~r.threw /\ mpc = "building") => call.toAddress = r.address
  /\ EmptyAddressIsFatal

\* An npub of a key off the curve gave an empty recipient address, and the
\* build failed on it.
C15_Witness ==
  /\ mpc = "settle"
  /\ recipient = <<"npub1", "off">>
  /\ call.toAddress = <<>>
  /\ attempt.builds = 1
  /\ attempt.broadcasts = 0
  /\ outcome.message = "Invalid output"

C17_KeyAndChangeAddress ==
  /\ XOnlyPubkey(call.privateKeyHex) = "" =>
       /\ bpc \in {"idle", "keyPair", "done"}
       /\ bpc = "done" =>
            result.kind = "error" /\ result.message = "Invalid private key"
  /\ (XOnlyPubkey(call.privateKeyHex) # ""
        /\ ~ValidXOnly(XOnlyPubkey(call.privateKeyHex))) =>
       /\ bpc \in {"keyPair", "changeAddress", "done"}
       /\ bpc = "done" =>
            /\ result.kind = "error"
            /\ result.message = "Failed to generate change address"
  /\ changeAddress = <<>> =>
       /\ psbt = EmptyPsbt
       /\ totalInput = 0
       /\ tweakCount = 0
       /\ result.kind # "ok"
  /\ Built =>
       /\ changeAddress # <<>>
       /\ change > DustLimit =>
            /\ Len(result.txHex.outs) = 2
            /\ result.txHex.outs[2].address = changeAddress

\* The change address could not be derived: the call has failed on an
\* empty draft, although outputs were supplied.
C17_Witness ==
  /\ bpc = "done"
  /\ result.message = "Failed to generate change address"
  /\ call.utxos # <<>>
  /\ psbt = EmptyPsbt

\* C18: when the call fails with insufficient funds, the draft holds the
\* supplied inputs and nothing else: no output has been added, the key has
\* not been tweaked, no input is signed or finalized, the inputs are the
\* supplied outputs and no other selection, and no transaction is returned.
\* Outputs, the tweak and signatures exist only once the funds check has
\* passed.
C18_NoPartialConstruction ==
  /\ result.message = "Insufficient funds" =>
       /\ bpc = "done"
       /\ result.kind = "error"
       /\ result.txHex = [ins |-> <<>>, outs |-> <<>>]
       /\ psbt.outputs = <<>>
       /\ tweakCount = 0
       /\ Len(psbt.inputs) = Len(call.utxos)
       /\ \A i \in DOMAIN psbt.inputs :
            /\ psbt.inputs[i].hash = call.utxos[i].txid
            /\ psbt.inputs[i].index = call.utxos[i].vout
            /\ psbt.inputs[i].sigs = <<>>
            /\ ~psbt.inputs[i].finalized
  /\ (\/ psbt.outputs # <<>>
      \/ tweakCount > 0
      \/ \E i \in DOMAIN psbt.inputs : psbt.inputs[i].sigs # <<>>) =>
       /\ totalInput >= call.amountSats + estimatedFee
       /\ result.message # "Insufficient funds"

\* Two inputs that do not cover the amount.
C18_Witness ==
  /\ bpc = "done"
  /\ result.message = "Insufficient funds"
  /\ Len(psbt.inputs) = 2
  /\ psbt.outputs = <<>>
  /\ result.available < result.required

\* The signature the tweaked key of this call leaves on an input.
TweakedOnce == <<"tweaked", XOnlyPubkey(call.privateKeyHex), 1>>

\* Some input carries a signature.
SigningBegun == \E i \in DOMAIN psbt.inputs : psbt.inputs[i].sigs # <<>>

\* What holds of the signing phase in every state.
C19_SigningState ==
  /\ tweakCount <= 1
  /\ \A i \in DOMAIN psbt.inputs :
       /\ psbt.inputs[i].sigs \in {<<>>, <<TweakedOnce>>}
       /\ psbt.inputs[i].sigs # <<>> =>
            /\ tweakCount = 1
            /\ \A j \in 1..i : psbt.inputs[j].sigs # <<>>
       /\ psbt.inputs[i].finalized =>
            \A j \in DOMAIN psbt.inputs : psbt.inputs[j].sigs = <<TweakedOnce>>
  /\ (bpc = "extract" \/ Built) =>
       /\ psbt.inputs # <<>>
       /\ \A i \in DOMAIN psbt.inputs : psbt.inputs[i].finalized
  /\ SigningBegun =>
       /\ Len(psbt.outputs) = (IF change > 546 THEN 2 ELSE 1)
       /\ psbt.outputs[1] =
            [address |-> call.toAddress, value |-> call.amountSats]
  /\ Built =>
       /\ tweakCount = 1
       /\ Len(psbt.inputs) = Len(call.utxos)
       /\ result.txHex.outs = psbt.outputs

\* What holds of every step: once an input is signed the outputs and the
\* tweaked key stay as they are, and a signature is never replaced.
C19_SigningStep ==
  SigningBegun =>
    /\ psbt'.outputs = psbt.outputs
    /\ tweakCount' = tweakCount
    /\ Len(psbt'.inputs) = Len(psbt.inputs)
    /\ \A i \in DOMAIN psbt.inputs :
         psbt.inputs[i].sigs # <<>> =>
           psbt'.inputs[i].sigs = psbt.inputs[i].sigs

\* C19: in every successful build the key is tweaked once, every input is
\* signed once, in index order, with that tweaked key, the inputs are
\* finalized only after all are signed, the transaction is extracted only
\* after they are finalized, and the destination and change outputs are in
\* place before the first signature and do not change after it.
C19_TweakSignFinalize == []C19_SigningState /\ [][C19_SigningStep]_vars

\* Two inputs signed and finalized, two outputs.
C19_Witness ==
  /\ Built
  /\ Len(psbt.inputs) = 2
  /\ Len(psbt.outputs) = 2
  /\ tweakCount = 1
  /\ \A i \in DOMAIN psbt.inputs :
       psbt.inputs[i].sigs = <<TweakedOnce>> /\ psbt.inputs[i].finalized

\* The dialog is closed or one of its fields is edited in this step.
FormTouched ==
  \/ isOpen' # isOpen
  \/ recipient' # recipient
  \/ amount' # amount
  \/ feeSpeed' # feeSpeed

\* The send of this dialog has started and has not settled.
InFlight == mpc \in {"mutationFn", "building", "broadcasting", "settle"}

\* What every step does to a send in flight: closing or editing leaves the
\* send where it is, and it leaves the pending status only by delivering a
\* transaction id or an error message.
C20_InFlightStep ==
  /\ InFlight /\ FormTouched =>
       /\ mpc' = mpc
       /\ mstatus' = mstatus
       /\ attempt' = attempt
       /\ outcome' = outcome
       /\ UNCHANGED buildVars
  /\ InFlight /\ ~InFlight' =>
       /\ mpc = "settle"
       /\ outcome.kind = "ok" =>
            mstatus' = "success" /\ txId' = outcome.txId /\ error' = error
       /\ outcome.kind = "error" =>
            mstatus' = "error" /\ error' = outcome.message /\ txId' = txId
       /\ outcome.kind # "none"
  /\ mstatus = "pending" /\ mstatus' # "pending" => InFlight /\ ~InFlight'

\* C20: a send in flight is not cancelled: closing the dialog or editing its
\* fields leaves the send, its build and its broadcast untouched, the send
\* stays pending until it has settled, and the outcome it settles with is
\* written to txId or error whether or not the dialog is still open.
C20_NoCancellation ==
  [](InFlight => mstatus = "pending") /\ [][C20_InFlightStep]_vars

\* A transaction id delivered to a dialog that was closed during the
\* broadcast.
C20_Witness ==
  /\ ~isOpen
  /\ ~InFlight
  /\ mstatus = "success"
  /\ txId # ""

\* The builder is past its call of getECPair.
PastGetECPair == bpc \notin {"idle", "keyPair"}

\* What holds of the factory in every state.
C21_EccState ==
  /\ ECPair \in {0, 1}
  /\ PastGetECPair => ECPair = 1
  /\ internalPubkey # "" => ECPair = 1

\* What holds of the factory in every step.
C21_EccStep ==
  /\ ECPair # 0 => ECPair' = ECPair
  /\ ECPair' # ECPair => bpc = "keyPair" /\ ECPair = 0 /\ ECPair' = 1

\* C21: initEccLib and ECPairFactory run in the first call of getECPair and
\* in no later one, every call returns the factory made then, and no key
\* pair exists before that.
C21_InitialisedOnce == []C21_EccState /\ [][C21_EccStep]_vars

\* A later call of the builder has made its key pair with the factory of
\* the first call.
C21_Witness ==
  /\ mpc = "direct"
  /\ attempt.builds >= 1
  /\ internalPubkey # ""
  /\ ECPair = 1

\* What the inputs of the built transaction hold beyond what its outputs
\* pay: the fee the network sees.
PaidFee == SumValues(call.utxos) - SumValues(result.txHex.outs)

\* C22: for every built transaction the fee paid on chain is at least the
\* returned fee and at most 546 satoshis above it, and the two are equal
\* exactly when a change output was created or the computed change is 0.
C22_PaidFee ==
  Built =>
    /\ PaidFee >= result.fee
    /\ PaidFee <= result.fee + 546
    /\ PaidFee = result.fee <=> (Len(result.txHex.outs) = 2 \/ change = 0)

\* A build whose change of 546 went to the miners on top of the returned fee.
C22_Witness ==
  /\ Built
  /\ Len(result.txHex.outs) = 1
  /\ change = 546
  /\ PaidFee = result.fee + 546

\* The builder was called to send all that its inputs hold, at a positive
\* fee rate.
WholeBalanceCall ==
  /\ call.amountSats = SumValues(call.utxos)
  /\ call.feeRate > 0

\* The send attempt that is settling was started with the amount Send Max
\* fills in, the sum of the fetched outputs, and a positive fee rate. An
\* attempt that got as far as the build is judged by the arguments of the
\* build; one that did not, by the form and the queries, which are still as
\* mutationFn saw them.
SendMaxAttempt ==
  IF attempt.builds = 0
    THEN /\ amount.kind = "num"
         /\ utxosEntry.hasData
         /\ btcToSats(amount) = totalBalance
         /\ feeEntry.hasData
         /\ FeeRateMap(feeEntry.data, feeSpeed) > 0
    ELSE WholeBalanceCall

\* C23 as stated: every send attempt for the whole balance at a positive fee
\* rate fails with the insufficient-funds error, and nothing is broadcast.
C23_AlwaysInsufficientFunds ==
  (mpc = "settle" /\ SendMaxAttempt) =>
    /\ outcome.message = "Insufficient funds"
    /\ attempt.broadcasts = 0

\* C23: a send attempt for the whole balance at a positive fee rate never
\* succeeds and nothing is broadcast; it fails with the insufficient-funds
\* error when it gets as far as the build, and with the error of the key,
\* output-set or recipient check when one of those rejects it first. The builder called
\* with such arguments never returns a transaction.
C23_SendMaxFails ==
  /\ (mpc = "settle" /\ SendMaxAttempt) =>
       /\ outcome.kind = "error"
       /\ attempt.broadcasts = 0
       /\ attempt.builds = 1 => outcome.message = "Insufficient funds"
       /\ attempt.builds = 0 =>
            outcome.message \in {"Failed to access private key",
                                 "No UTXOs available",
                                 "Invalid recipient address or npub"}
  /\ mpc = "broadcasting" => ~WholeBalanceCall
  /\ (bpc = "done" /\ WholeBalanceCall) =>
       /\ result.kind = "error"
       /\ InputsAccepted => result.message = "Insufficient funds"

\* A Send Max attempt over a balance of 100,000 has been built and rejected
\* for insufficient funds.
C23_Witness ==
  /\ mpc = "settle"
  /\ SendMaxAttempt
  /\ attempt.builds = 1
  /\ call.amountSats = 100000
  /\ outcome.message = "Insufficient funds"

\* A send attempt starts in this step: mutationFn is about to run for a
\* fresh attempt.
AttemptStarts == mpc' = "mutationFn" /\ attempt' = NoAttempt

\* C24: at most one send attempt is in flight per dialog: while a send is
\* pending the Send button is disabled, handleSend runs and a new attempt
\* starts only when no attempt is in flight, and so one attempt never holds
\* more than one build and one broadcast, and the builder is at work only
\* for the attempt in flight.
C24_OneInFlight ==
  /\ [](/\ InFlight => mstatus = "pending" /\ SendDisabled
        /\ attempt.builds <= 1
        /\ attempt.broadcasts <= 1
        /\ mpc = "broadcasting" => attempt.submitted = <<result.txHex>>
        /\ (mpc # "direct" /\ bpc # "idle") =>
             mpc \in {"building", "broadcasting", "settle"})
  /\ [][/\ handleSend => ~InFlight /\ mstatus # "pending"
        /\ AttemptStarts => ~InFlight]_vars

\* A broadcast is awaited while the form is complete: only the pending send
\* keeps the Send button disabled.
C24_Witness ==
  /\ mpc = "broadcasting"
  /\ FormShown
  /\ recipient # <<>>
  /\ amount.kind = "num"
  /\ amount.m > 0
  /\ ~isLoadingUtxos
  /\ ~isLoadingFees
  /\ SendDisabled

\* What every step does to txId and error.
C25_OutcomeStep ==
  /\ (~InFlight /\ InFlight') => error' = "" /\ txId' = ""
  /\ (txId' # txId /\ txId' # "") =>
       /\ mpc = "settle"
       /\ outcome.kind = "ok"
       /\ txId' = outcome.txId
       /\ error' = error
  /\ (error' # error /\ error' # "") =>
       /\ mpc = "settle"
       /\ outcome.kind = "error"
       /\ error' = outcome.message
       /\ txId' = txId
  /\ (isOpen /\ ~isOpen') =>
       /\ recipient' = <<>>
       /\ amount' = AmountEmpty
       /\ error' = ""
       /\ txId' = ""
       /\ feeSpeed' = "halfHour"

\* C25: txId and error are never both non-empty: a send starts with both
\* cleared, a successful attempt sets txId alone, a failed one sets error
\* alone, and closing the dialog empties recipient, amount, error and txId
\* and sets feeSpeed to halfHour.
C25_TxIdOrError ==
  [](txId = "" \/ error = "") /\ [][C25_OutcomeStep]_vars

\* A failed attempt has left its message in error and nothing in txId.
C25_Witness ==
  /\ isOpen
  /\ mstatus = "error"
  /\ error # ""
  /\ txId = ""

\* The session gives no access to a private key.
NoKeyAccess == ~user \/ ~hasNsecAccess \/ getPrivateKey = ""

\* The send attempt in flight has called the builder.
BuildCalled ==
  \/ mpc \in {"building", "broadcasting"}
  \/ InFlight /\ (attempt.builds > 0 \/ attempt.broadcasts > 0)

\* C26: no transaction is built or broadcast without the private key: a
\* send attempt of a session that is not an nsec login, has no user, or
\* gets null from getPrivateKey is rejected by mutationFn with the builder
\* untouched, an attempt that calls the builder passes it the key of
\* getPrivateKey, and getPrivateKey gives a key only for an nsec login whose
\* stored nsec decodes to an nsec.
C26_KeyAccess ==
  /\ getPrivateKey # "" => loginType = "nsec" /\ nsecStored = "nsec"
  /\ BuildCalled =>
       /\ ~NoKeyAccess
       /\ call.privateKeyHex = getPrivateKey
  /\ (InFlight /\ NoKeyAccess) =>
       /\ mpc \in {"mutationFn", "settle"}
       /\ bpc = "idle"
       /\ call = NoCall
       /\ attempt.builds = 0
       /\ attempt.broadcasts = 0
       /\ mpc = "settle" =>
            /\ outcome.kind = "error"
            /\ outcome.message \in
                 {"You must be logged in with nsec to send Bitcoin",
                  "Failed to access private key"}

\* An nsec login whose stored nsec does not decode to one: the attempt has
\* been rejected before the build.
C26_Witness ==
  /\ mpc = "settle"
  /\ loginType = "nsec"
  /\ nsecStored # "nsec"
  /\ attempt.builds = 0
  /\ outcome.message = "Failed to access private key"

\* What holds of the data on the page: what a query shows came from a
\* request to the explorer of the selected network, the output set from one
\* about the sender address on that network.
QueriesOfSelectedNetwork ==
  /\ utxosQuery.hasData => utxosQuery.from = UtxoRequest(senderAddress, network)
  /\ feeQuery.hasData => feeQuery.from = FeeRequest(network)

\* C27: whatever the order of network changes, fetches and sends, the
\* output set and the fee schedule a build uses came from the explorer of
\* the network that is passed to createBitcoinTransaction, the output set
\* for the sender address on that network, and the transaction is posted
\* to the explorer of that same network.
C27_NetworkConsistency ==
  /\ mpc # "direct" => QueriesOfSelectedNetwork
  /\ mpc \in {"mutationFn", "building"} => network = call.network \/ call = NoCall
  /\ (InFlight /\ attempt.builds = 1) =>
       /\ attempt.utxosFrom =
            UtxoRequest(senderAddressOn(call.network), call.network)
       /\ attempt.feesFrom = FeeRequest(call.network)
       /\ senderAddressOn(call.network) # <<>>
  /\ (InFlight /\ attempt.broadcasts = 1) =>
       attempt.submittedTo = SubmissionUrl(call.network)

\* The network was changed while the broadcast of an attempt was awaited.
C27_Witness ==
  /\ mpc = "broadcasting"
  /\ attempt.builds = 1
  /\ attempt.broadcasts = 1
  /\ network # call.network
  /\ attempt.utxosFrom = UtxoRequest(senderAddressOn(call.network), call.network)
  /\ attempt.submittedTo = SubmissionUrl(call.network)

====
